---- MODULE Spec2Model ----
(***************************************************************************)
(* Model of vidaa/credentials.py: derivation of the MQTT credentials of a  *)
(* Vidaa TV (generate_credentials, generate_credentials_static).           *)
(*                                                                         *)
(* A Python str is a sequence of one-character strings, a Python int is a  *)
(* record [neg, mag] whose magnitude is a little-endian sequence of 16-bit *)
(* limbs (Python ints are unbounded; TLC's are 32 bits wide), and MD5 is   *)
(* computed as RFC 1321 computes it, on 32-bit words held as <<hi, lo>>    *)
(* pairs of 16-bit halves.                                                 *)
(***************************************************************************)
EXTENDS Integers, Sequences, FiniteSets, TLC

VARIABLES clock, args, calls, heap, pc, frame

vars == <<clock, args, calls, heap, pc, frame>>

----------------------------------------------------------------------------
(* Characters.  The printable ASCII characters in code-point order, one    *)
(* two-byte character in both cases, and a lone surrogate (a code point a  *)
(* Python str may hold and UTF-8 cannot encode).                           *)

Ascii ==
  <<" ", "!", "\"", "#", "$", "%", "&", "'", "(", ")", "*", "+", ",", "-", ".", "/",
    "0", "1", "2", "3", "4", "5", "6", "7", "8", "9", ":", ";", "<", "=", ">", "?",
    "@", "A", "B", "C", "D", "E", "F", "G", "H", "I", "J", "K", "L", "M", "N", "O",
    "P", "Q", "R", "S", "T", "U", "V", "W", "X", "Y", "Z", "[", "\\", "]", "^", "_",
    "U+0060", "a", "b", "c", "d", "e", "f", "g", "h", "i", "j", "k", "l", "m", "n", "o",
    "p", "q", "r", "s", "t", "u", "v", "w", "x", "y", "z", "{", "|", "}", "~">>

EAcuteLower == "U+00E9"
EAcuteUpper == "U+00C9"
Surrogate   == "U+D800"

Chars == {Ascii[i] : i \in 1..Len(Ascii)} \cup {EAcuteLower, EAcuteUpper, Surrogate}

\* ord(c) for the ASCII characters: the position in Ascii, counted from 32.
Ord == [c \in {Ascii[i] : i \in 1..Len(Ascii)} |->
          31 + (CHOOSE i \in 1..Len(Ascii) : Ascii[i] = c)]

\* The UTF-8 bytes of one character.
Utf8Char(c) ==
  IF c = EAcuteLower THEN <<195, 169>>
  ELSE IF c = EAcuteUpper THEN <<195, 137>>
  ELSE <<Ord[c]>>

RECURSIVE Flatten(_)
Flatten(ss) == IF Len(ss) = 0 THEN <<>> ELSE Head(ss) \o Flatten(Tail(ss))

\* Python's None, and the exception a lone surrogate makes str.encode raise.
None == [none |-> TRUE]
UnicodeEncodeError == [raised |-> "UnicodeEncodeError"]

Encodable(s) == \A i \in 1..Len(s) : s[i] # Surrogate

\* s.encode('utf-8'): the bytes of s; raises on a lone surrogate.
encode(s) ==
  IF Encodable(s) THEN Flatten([i \in 1..Len(s) |-> Utf8Char(s[i])])
  ELSE UnicodeEncodeError

\* str.upper() of one character.
UpperChar(c) ==
  IF c = EAcuteLower THEN EAcuteUpper
  ELSE IF c \in DOMAIN Ord /\ Ord[c] >= 97 /\ Ord[c] <= 122 THEN Ascii[Ord[c] - 63]
  ELSE c

upper(s) == [i \in 1..Len(s) |-> UpperChar(s[i])]

\* s.replace(c, ""): s without its occurrences of the character c.
remove(s, c) == SelectSeq(s, LAMBDA x : x # c)

----------------------------------------------------------------------------
(* hashlib.md5 (RFC 1321).  A 32-bit word is <<hi, lo>>, two 16-bit halves. *)

\* a AND b on one bit, on 4 bits (a table) and on 16 bits (four nibbles).
RECURSIVE AndBits(_, _, _)
AndBits(a, b, n) ==
  IF n = 0 THEN 0 ELSE (a % 2) * (b % 2) + 2 * AndBits(a \div 2, b \div 2, n - 1)

And4 == [a \in 0..15 |-> [b \in 0..15 |-> AndBits(a, b, 4)]]

And16(a, b) ==
  And4[a % 16][b % 16]
    + 16 * And4[(a \div 16) % 16][(b \div 16) % 16]
    + 256 * And4[(a \div 256) % 16][(b \div 256) % 16]
    + 4096 * And4[a \div 4096][b \div 4096]

And32(x, y) == <<And16(x[1], y[1]), And16(x[2], y[2])>>
Not32(x)    == <<65535 - x[1], 65535 - x[2]>>
Xor32(x, y) == <<x[1] + y[1] - 2 * And16(x[1], y[1]),
                 x[2] + y[2] - 2 * And16(x[2], y[2])>>
Or32(x, y)  == <<x[1] + y[1] - And16(x[1], y[1]),
                 x[2] + y[2] - And16(x[2], y[2])>>

Add32(x, y) ==
  LET lo == x[2] + y[2]
      hi == x[1] + y[1] + (lo \div 65536)
  IN  <<hi % 65536, lo % 65536>>

Rotl32(x, s) ==
  LET y == IF s >= 16 THEN <<x[2], x[1]>> ELSE x
      r == s % 16
  IN  IF r = 0 THEN y
      ELSE <<((y[1] * 2^r) % 65536) + (y[2] \div 2^(16 - r)),
             ((y[2] * 2^r) % 65536) + (y[1] \div 2^(16 - r))>>

Md5K ==
  <<<<55146, 42104>>, <<59591, 46934>>, <<9248, 28891>>, <<49597, 52974>>,
    <<62844, 4015>>, <<18311, 50730>>, <<43056, 17939>>, <<64838, 38145>>,
    <<27008, 39128>>, <<35652, 63407>>, <<65535, 23473>>, <<35164, 55230>>,
    <<27536, 4386>>, <<64920, 29075>>, <<42617, 17294>>, <<18868, 2081>>,
    <<63006, 9570>>, <<49216, 45888>>, <<9822, 23121>>, <<59830, 51114>>,
    <<54831, 4189>>, <<580, 5203>>, <<55457, 59009>>, <<59347, 64456>>,
    <<8673, 52710>>, <<49975, 2006>>, <<62677, 3463>>, <<17754, 5357>>,
    <<43491, 59653>>, <<64751, 41976>>, <<26479, 729>>, <<36138, 19594>>,
    <<65530, 14658>>, <<34673, 63105>>, <<28061, 24866>>, <<64997, 14348>>,
    <<42174, 59972>>, <<19422, 53161>>, <<63163, 19296>>, <<48831, 48240>>,
    <<10395, 32454>>, <<60065, 10234>>, <<54511, 12421>>, <<1160, 7429>>,
    <<55764, 53305>>, <<59099, 39397>>, <<8098, 31992>>, <<50348, 22117>>,
    <<62505, 8772>>, <<17194, 65431>>, <<43924, 9127>>, <<64659, 41017>>,
    <<25947, 22979>>, <<36620, 52370>>, <<65519, 62589>>, <<34180, 24017>>,
    <<28584, 32335>>, <<65068, 59104>>, <<41729, 17172>>, <<19976, 4513>>,
    <<63315, 32386>>, <<48442, 62005>>, <<10967, 53947>>, <<60294, 54161>>>>

Md5S ==
  <<7, 12, 17, 22, 7, 12, 17, 22, 7, 12, 17, 22, 7, 12, 17, 22,
    5, 9, 14, 20, 5, 9, 14, 20, 5, 9, 14, 20, 5, 9, 14, 20,
    4, 11, 16, 23, 4, 11, 16, 23, 4, 11, 16, 23, 4, 11, 16, 23,
    6, 10, 15, 21, 6, 10, 15, 21, 6, 10, 15, 21, 6, 10, 15, 21>>

Md5Init == <<<<26437, 8961>>, <<61389, 43913>>, <<39098, 56574>>, <<4146, 21622>>>>

\* The padded message: the bytes, 0x80, zeros up to 56 mod 64, and the bit
\* length as 8 little-endian bytes (lengths here stay far below 2^28 bytes).
Md5Pad(bytes) ==
  LET n     == Len(bytes)
      zeros == (119 - (n % 64)) % 64
      bits  == n * 8
  IN  bytes \o <<128>> \o [i \in 1..zeros |-> 0]
        \o [i \in 1..8 |-> IF i <= 4 THEN (bits \div (256^(i - 1))) % 256 ELSE 0]

\* The 16 little-endian words of block k (from 0) of the padded message.
Md5Block(padded, k) ==
  [j \in 1..16 |->
     LET o == 64 * k + 4 * (j - 1)
     IN  <<padded[o + 3] + 256 * padded[o + 4], padded[o + 1] + 256 * padded[o + 2]>>]

\* Round i (from 0) on the state st = <<A, B, C, D>> with the block M.
Md5Step(st, M, i) ==
  LET A == st[1]
      B == st[2]
      C == st[3]
      D == st[4]
      F == IF i < 16 THEN Or32(And32(B, C), And32(Not32(B), D))
           ELSE IF i < 32 THEN Or32(And32(D, B), And32(Not32(D), C))
           ELSE IF i < 48 THEN Xor32(Xor32(B, C), D)
           ELSE Xor32(C, Or32(B, Not32(D)))
      g == IF i < 16 THEN i
           ELSE IF i < 32 THEN (5 * i + 1) % 16
           ELSE IF i < 48 THEN (3 * i + 5) % 16
           ELSE (7 * i) % 16
      T == Add32(Add32(Add32(F, A), Md5K[i + 1]), M[g + 1])
  IN  <<D, Add32(B, Rotl32(T, Md5S[i + 1])), B, C>>

\* Rounds lo .. hi-1 on st, halving the range (64 rounds nest 6 deep).
RECURSIVE Md5Rounds(_, _, _, _)
Md5Rounds(st, M, lo, hi) ==
  IF hi - lo = 1 THEN Md5Step(st, M, lo)
  ELSE LET mid  == (lo + hi) \div 2
           half == Md5Rounds(st, M, lo, mid)
       IN  IF Len(half) = 4 THEN Md5Rounds(half, M, mid, hi) ELSE half

RECURSIVE Md5Blocks(_, _, _)
Md5Blocks(st, padded, k) ==
  IF 64 * k >= Len(padded) THEN st
  ELSE LET r == Md5Rounds(st, Md5Block(padded, k), 0, 64)
       IN  Md5Blocks([j \in 1..4 |-> Add32(st[j], r[j])], padded, k + 1)

HexUpper == <<"0", "1", "2", "3", "4", "5", "6", "7", "8", "9", "A", "B", "C", "D", "E", "F">>

\* The 8 uppercase hex digits of a word's 4 bytes, least significant byte first.
WordHex(w) ==
  LET byte == <<w[2] % 256, w[2] \div 256, w[1] % 256, w[1] \div 256>>
  IN  [j \in 1..8 |-> IF j % 2 = 1 THEN HexUpper[(byte[(j + 1) \div 2] \div 16) + 1]
                      ELSE HexUpper[(byte[j \div 2] % 16) + 1]]

\* hashlib.md5(bytes).hexdigest().upper()
Md5HexUpper(bytes) ==
  LET st == Md5Blocks(Md5Init, Md5Pad(bytes), 0)
  IN  WordHex(st[1]) \o WordHex(st[2]) \o WordHex(st[3]) \o WordHex(st[4])

\* _md5(s): raises when s cannot be encoded.
md5(s) == IF Encodable(s) THEN Md5HexUpper(encode(s)) ELSE UnicodeEncodeError

----------------------------------------------------------------------------
(* Python int: [neg, mag], mag the little-endian 16-bit limbs of the       *)
(* magnitude with no leading zero limb (zero is <<>>).                     *)

RECURSIVE Limbs(_)
Limbs(m) == IF m = 0 THEN <<>> ELSE <<m % 65536>> \o Limbs(m \div 65536)

\* The Python int of a TLC integer.
PyInt(n) == [neg |-> n < 0, mag |-> Limbs(IF n < 0 THEN -n ELSE n)]

RECURSIVE Normalize(_)
Normalize(m) ==
  IF Len(m) = 0 THEN <<>>
  ELSE IF m[Len(m)] = 0 THEN Normalize(SubSeq(m, 1, Len(m) - 1))
  ELSE m

Limb(m, i) == IF i <= Len(m) THEN m[i] ELSE 0

RECURSIVE IncMag(_)
IncMag(m) ==
  IF Len(m) = 0 THEN <<1>>
  ELSE IF Head(m) < 65535 THEN <<Head(m) + 1>> \o Tail(m)
  ELSE <<0>> \o IncMag(Tail(m))

\* m - 1, for m > 0.
RECURSIVE DecMag(_)
DecMag(m) ==
  IF Head(m) > 0 THEN Normalize(<<Head(m) - 1>> \o Tail(m))
  ELSE <<65535>> \o DecMag(Tail(m))

XorMag(a, b) ==
  Normalize([i \in 1..(IF Len(a) >= Len(b) THEN Len(a) ELSE Len(b)) |->
               Limb(a, i) + Limb(b, i) - 2 * And16(Limb(a, i), Limb(b, i))])

\* a ^ b on Python ints: two's complement of unbounded width, ~x = -x - 1.
xor(a, b) ==
  IF ~a.neg /\ ~b.neg THEN [neg |-> FALSE, mag |-> XorMag(a.mag, b.mag)]
  ELSE IF a.neg /\ b.neg THEN [neg |-> FALSE, mag |-> XorMag(DecMag(a.mag), DecMag(b.mag))]
  ELSE IF a.neg THEN [neg |-> TRUE, mag |-> IncMag(XorMag(DecMag(a.mag), b.mag))]
  ELSE [neg |-> TRUE, mag |-> IncMag(XorMag(a.mag, DecMag(b.mag)))]

abs(n) == [neg |-> FALSE, mag |-> n.mag]

\* The remainder of the limbs i .. Len(m) of m, as a number, divided by 10.
RECURSIVE Rem10(_, _)
Rem10(m, i) == IF i > Len(m) THEN 0 ELSE (Rem10(m, i + 1) * 65536 + m[i]) % 10

Div10(m) == Normalize([i \in 1..Len(m) |-> (Rem10(m, i + 1) * 65536 + m[i]) \div 10])

Digit == <<"0", "1", "2", "3", "4", "5", "6", "7", "8", "9">>

RECURSIVE Digits(_)
Digits(m) == IF Len(m) = 0 THEN <<>> ELSE Digits(Div10(m)) \o <<Digit[Rem10(m, 1) + 1]>>

\* str(n), and f"{n}", of a Python int.
str(n) ==
  IF Len(n.mag) = 0 THEN <<"0">>
  ELSE (IF n.neg THEN <<"-">> ELSE <<>>) \o Digits(n.mag)

RECURSIVE Sum(_)
Sum(ns) == IF Len(ns) = 0 THEN 0 ELSE Head(ns) + Sum(Tail(ns))

\* _sum_digits(n): sum(int(d) for d in str(abs(n))).
sum_digits(n) == LET ds == str(abs(n)) IN Sum([i \in 1..Len(ds) |-> Ord[ds[i]] - 48])

----------------------------------------------------------------------------
(* vidaa/config.py and vidaa/protocol.py, as credentials.py imports them.  *)
(* PATTERN and the XOR constant have the values the docstring of           *)
(* credentials.py gives; the two suffixes and the two static credentials   *)
(* are strings whose values credentials.py does not show, and stand here   *)
(* as four distinct strings; AuthMethod is an enumeration of three members.*)

PATTERN == <<"3", "8", "D", "6", "5", "D", "C", "3", "0", "F", "4", "5", "1", "0", "9", "A", "3", "6", "9", "A", "8", "6", "F", "C", "E", "8", "6", "6", "A", "8", "5", "B">>

\* 0x5698_1477_2b03_a968
TIME_XOR_CONSTANT == [neg |-> FALSE, mag |-> <<43368, 11011, 5239, 22168>>]

VALUE_SUFFIX_MODERN   == <<"<", "V", "A", "L", "U", "E", "_", "S", "U", "F", "F", "I", "X", "_", "M", "O", "D", "E", "R", "N", ">">>
VALUE_SUFFIX_LEGACY   == <<"<", "V", "A", "L", "U", "E", "_", "S", "U", "F", "F", "I", "X", "_", "L", "E", "G", "A", "C", "Y", ">">>
DEFAULT_MQTT_USERNAME == <<"<", "D", "E", "F", "A", "U", "L", "T", "_", "M", "Q", "T", "T", "_", "U", "S", "E", "R", "N", "A", "M", "E", ">">>
DEFAULT_MQTT_PASSWORD == <<"<", "D", "E", "F", "A", "U", "L", "T", "_", "M", "Q", "T", "T", "_", "P", "A", "S", "S", "W", "O", "R", "D", ">">>

LEGACY == [member |-> "LEGACY"]
MIDDLE == [member |-> "MIDDLE"]
MODERN == [member |-> "MODERN"]
AuthMethod == {LEGACY, MIDDLE, MODERN}

----------------------------------------------------------------------------
(* credentials.py.  The outcome of a call is a record: exception is None   *)
(* and the three fields are those of the MQTTCredentials returned, or      *)
(* exception names what the call raised and the fields are empty.          *)

MQTTCredentials(client_id, username, password) ==
  [exception |-> None, client_id |-> client_id, username |-> username,
   password |-> password]

Raise(e) == [exception |-> e, client_id |-> <<>>, username |-> <<>>, password |-> <<>>]

\* Lines 94-97 without the test for separators.
canonical_uuid_any_12(mac_address) ==
  IF Len(mac_address) = 12
  THEN [j \in 1..17 |-> IF j % 3 = 0 THEN ":" ELSE mac_address[j - (j \div 3)]]
  ELSE mac_address

\* Lines 94-97: a flat 12-character id gets a ':' after every 2 characters.
canonical_uuid(mac_address) ==
  IF (\A i \in 1..Len(mac_address) : mac_address[i] # ":" /\ mac_address[i] # "-")
     /\ Len(mac_address) = 12
  THEN [j \in 1..17 |-> IF j % 3 = 0 THEN ":" ELSE mac_address[j - (j \div 3)]]
  ELSE mac_address

\* Lines 100-101: the first 6 characters of _md5(f"{PATTERN}${uuid}").
race_md5(uuid) == SubSeq(md5(PATTERN \o <<"$">> \o uuid), 1, 6)

\* Line 104.
build_client_id(uuid, brand, operation) ==
  uuid \o <<"$">> \o brand \o <<"$">> \o race_md5(uuid) \o <<"_">> \o operation
    \o <<"_", "0", "0", "1">>

\* Lines 109-113 without the LEGACY branch.
build_username_always_xor(brand, timestamp, auth_method) ==
  brand \o <<"$">> \o str(xor(timestamp, TIME_XOR_CONSTANT))

\* Lines 109-113.
build_username(brand, timestamp, auth_method) ==
  IF auth_method = LEGACY THEN brand \o <<"$">> \o str(timestamp)
  ELSE brand \o <<"$">> \o str(xor(timestamp, TIME_XOR_CONSTANT))

\* Lines 118-121 with one suffix for every variant.
select_value_suffix_always_legacy(auth_method) == VALUE_SUFFIX_LEGACY

\* Lines 118-121.
select_value_suffix(auth_method) ==
  IF auth_method = MODERN THEN VALUE_SUFFIX_MODERN ELSE VALUE_SUFFIX_LEGACY

\* Lines 123-124.
build_value(brand, timestamp, value_suffix) ==
  brand \o str(PyInt(sum_digits(timestamp) % 10)) \o value_suffix

\* Lines 125-128 with the XORed timestamp of the username in the password.
build_password_from_xored(timestamp, value) ==
  md5(str(xor(timestamp, TIME_XOR_CONSTANT)) \o <<"$">> \o SubSeq(md5(value), 1, 6))

\* Lines 125-128, for a value that encodes.
build_password(timestamp, value) ==
  md5(str(timestamp) \o <<"$">> \o SubSeq(md5(value), 1, 6))

\* Lines 87-88 with another default.
default_auth_method_legacy(auth_method) == IF auth_method = None THEN LEGACY ELSE auth_method

\* Lines 87-88.
default_auth_method(auth_method) == IF auth_method = None THEN MODERN ELSE auth_method

\* The timestamp argument ignored: the clock is read in every call.
default_timestamp_always_now(timestamp) == PyInt(clock)

\* Lines 90-91: int(time.time()) is the wall clock, read when no timestamp is given.
default_timestamp(timestamp) == IF timestamp = None THEN PyInt(clock) ELSE timestamp

\* Lines 94-134 on the defaulted arguments: what the call returns, or the
\* exception _md5 raises at line 101 (the race) or at line 125 (the value).
derive(mac_address, brand, operation, timestamp, auth_method) ==
  LET uuid  == canonical_uuid(mac_address)
      value == build_value(brand, timestamp, select_value_suffix(auth_method))
  IN  IF ~Encodable(PATTERN \o <<"$">> \o uuid) THEN Raise(UnicodeEncodeError)
      ELSE IF ~Encodable(value) THEN Raise(UnicodeEncodeError)
      ELSE MQTTCredentials(build_client_id(uuid, brand, operation),
                           build_username(brand, timestamp, auth_method),
                           build_password(timestamp, value))

generate_credentials(mac_address, brand, operation, timestamp, auth_method) ==
  derive(mac_address, brand, operation, default_timestamp(timestamp),
         default_auth_method(auth_method))

\* Lines 137-149 without the upper().
generate_credentials_static_keeps_case(mac_address) ==
  MQTTCredentials(remove(remove(mac_address, ":"), "-")
                    \o <<"$", "v", "i", "d", "a", "a", "_", "c", "o", "m", "m", "o", "n">>,
                  DEFAULT_MQTT_USERNAME, DEFAULT_MQTT_PASSWORD)

\* Lines 137-149.
generate_credentials_static(mac_address) ==
  MQTTCredentials(upper(remove(remove(mac_address, ":"), "-"))
                    \o <<"$", "v", "i", "d", "a", "a", "_", "c", "o", "m", "m", "o", "n">>,
                  DEFAULT_MQTT_USERNAME, DEFAULT_MQTT_PASSWORD)

----------------------------------------------------------------------------
(* The inputs.                                                             *)

MaxCalls     == 1    \* calls of one behaviour of Spec
MaxStepCalls == 3    \* calls of one behaviour of SpecSteps
MaxTicks     == 1    \* seconds the wall clock advances
MaxAssigns   == 1    \* field assignments by the holder of the credentials
ClockStart   == 1699999999

FlatUpper  == <<"A", "A", "B", "B", "C", "C", "D", "D", "E", "E", "F", "F">>
ColonUpper == <<"A", "A", ":", "B", "B", ":", "C", "C", ":", "D", "D", ":", "E", "E", ":", "F", "F">>
FlatLower  == <<"a", "a", "b", "b", "c", "c", "d", "d", "e", "e", "f", "f">>
ColonLower == <<"a", "a", ":", "b", "b", ":", "c", "c", ":", "d", "d", ":", "e", "e", ":", "f", "f">>
DashId     == <<"A", "A", "B", "B", "-", "C", "C", "D", "D", "-", "E", "E">>
NotAMac    == <<"n", "o", "t", "_", "a", "_", "m", "a", "c", "_", "i", "d">>
LoneSurrogate == <<Surrogate>>

DeviceIds == {FlatUpper, ColonUpper, FlatLower, ColonLower, DashId, NotAMac, LoneSurrogate}

His        == <<"h", "i", "s">>
Prnqe      == <<"p", "r", "n", "q", "e">>
Brands     == {His, Prnqe, <<"h", Surrogate>>}

VidaaCommon == <<"v", "i", "d", "a", "a", "c", "o", "m", "m", "o", "n">>
VidaaVoice  == <<"v", "i", "d", "a", "a", "v", "o", "i", "c", "e">>
Operations  == {VidaaCommon, VidaaVoice}

\* 2^64 + 5
Beyond64   == [neg |-> FALSE, mag |-> <<5, 0, 0, 0, 1>>]
Timestamps == {PyInt(1700000000), PyInt(-1700000001), Beyond64}

Arguments ==
  [mac_address : DeviceIds, brand : Brands, operation : Operations,
   timestamp : Timestamps \cup {None}, auth_method : AuthMethod \cup {None}]

StepArguments ==
  [mac_address : {FlatUpper, LoneSurrogate}, brand : {His, <<"h", Surrogate>>},
   operation : {VidaaCommon},
   timestamp : {PyInt(1700000000), None}, auth_method : {LEGACY, None}]

AssignedValues == {<<"x">>}
Fields == {"client_id", "username", "password"}

----------------------------------------------------------------------------
(* The state: the wall clock in seconds, the caller's arguments, the log   *)
(* of the calls made (what each returned or raised, the timestamp it       *)
(* worked with, how often it read the clock and the time it ended at), the *)
(* object each call handed to its caller, and the position and locals of   *)
(* a call in progress.                                                     *)

NoFrame == [auth_method |-> None, timestamp |-> None, clock_reads |-> 0,
            client_id |-> <<>>, username |-> <<>>, password |-> <<>>]

Init ==
  /\ clock = ClockStart
  /\ args \in Arguments
  /\ calls = <<>>
  /\ heap = <<>>
  /\ pc = "idle"
  /\ frame = NoFrame

InitSteps == Init /\ args \in StepArguments

Finish(fn, timestamp, clock_reads, result) ==
  /\ calls' = Append(calls, [fn |-> fn, timestamp |-> timestamp,
                             clock_reads |-> clock_reads, at |-> clock,
                             result |-> result])
  /\ heap' = Append(heap, result)

\* A whole call of generate_credentials.
Generate ==
  /\ pc = "idle"
  /\ Len(calls) < MaxCalls
  /\ Finish("generate_credentials", default_timestamp(args.timestamp),
            IF args.timestamp = None THEN 1 ELSE 0,
            generate_credentials(args.mac_address, args.brand, args.operation,
                                 args.timestamp, args.auth_method))
  /\ UNCHANGED <<clock, args, pc, frame>>

\* A whole call of generate_credentials_static.
GenerateStatic ==
  /\ pc = "idle"
  /\ Len(calls) < MaxCalls
  /\ Finish("generate_credentials_static", None, 0,
            generate_credentials_static(args.mac_address))
  /\ UNCHANGED <<clock, args, pc, frame>>

Next == Generate \/ GenerateStatic

Spec == Init /\ [][Next]_vars

----------------------------------------------------------------------------
(* generate_credentials statement by statement, with the wall clock        *)
(* advancing while it runs.                                                *)

\* Lines 87-91.
BeginCall ==
  /\ pc = "idle"
  /\ Len(calls) < MaxStepCalls
  /\ frame' = [NoFrame EXCEPT !.auth_method = default_auth_method(args.auth_method),
                              !.timestamp = default_timestamp(args.timestamp),
                              !.clock_reads = IF args.timestamp = None THEN 1 ELSE 0]
  /\ pc' = "client_id"
  /\ UNCHANGED <<clock, args, calls, heap>>

\* Lines 94-104.
StepClientId ==
  /\ pc = "client_id"
  /\ LET uuid == canonical_uuid(args.mac_address)
     IN  IF ~Encodable(PATTERN \o <<"$">> \o uuid)
         THEN /\ Finish("generate_credentials", frame.timestamp, frame.clock_reads,
                        Raise(UnicodeEncodeError))
              /\ pc' = "idle"
              /\ frame' = NoFrame
         ELSE /\ frame' = [frame EXCEPT !.client_id =
                             build_client_id(uuid, args.brand, args.operation)]
              /\ pc' = "username"
              /\ UNCHANGED <<calls, heap>>
  /\ UNCHANGED <<clock, args>>

\* Lines 109-113.
StepUsername ==
  /\ pc = "username"
  /\ frame' = [frame EXCEPT !.username =
                 build_username(args.brand, frame.timestamp, frame.auth_method)]
  /\ pc' = "password"
  /\ UNCHANGED <<clock, args, calls, heap>>

\* Lines 118-128 with the clock read again where the timestamp is used.
StepPassword_reads_clock_again ==
  /\ pc = "password"
  /\ LET now   == IF args.timestamp = None THEN PyInt(clock) ELSE frame.timestamp
         value == build_value(args.brand, now, select_value_suffix(frame.auth_method))
     IN  IF ~Encodable(value)
         THEN /\ Finish("generate_credentials", frame.timestamp, frame.clock_reads,
                        Raise(UnicodeEncodeError))
              /\ pc' = "idle"
              /\ frame' = NoFrame
         ELSE /\ frame' = [frame EXCEPT !.password = build_password(now, value)]
              /\ pc' = "return"
              /\ UNCHANGED <<calls, heap>>
  /\ UNCHANGED <<clock, args>>

\* Lines 118-128.
StepPassword ==
  /\ pc = "password"
  /\ LET value == build_value(args.brand, frame.timestamp,
                              select_value_suffix(frame.auth_method))
     IN  IF ~Encodable(value)
         THEN /\ Finish("generate_credentials", frame.timestamp, frame.clock_reads,
                        Raise(UnicodeEncodeError))
              /\ pc' = "idle"
              /\ frame' = NoFrame
         ELSE /\ frame' = [frame EXCEPT !.password = build_password(frame.timestamp, value)]
              /\ pc' = "return"
              /\ UNCHANGED <<calls, heap>>
  /\ UNCHANGED <<clock, args>>

\* Lines 130-134.
StepReturn ==
  /\ pc = "return"
  /\ Finish("generate_credentials", frame.timestamp, frame.clock_reads,
            MQTTCredentials(frame.client_id, frame.username, frame.password))
  /\ pc' = "idle"
  /\ frame' = NoFrame
  /\ UNCHANGED <<clock, args>>

StaticCall ==
  /\ pc = "idle"
  /\ Len(calls) < MaxStepCalls
  /\ Finish("generate_credentials_static", None, 0,
            generate_credentials_static(args.mac_address))
  /\ UNCHANGED <<clock, args, pc, frame>>

\* The wall clock advances by a second, at any moment.
Tick ==
  /\ clock < ClockStart + MaxTicks
  /\ clock' = clock + 1
  /\ UNCHANGED <<args, calls, heap, pc, frame>>

NextSteps ==
  \/ BeginCall
  \/ StepClientId
  \/ StepUsername
  \/ StepPassword
  \/ StepReturn
  \/ StaticCall
  \/ Tick

SpecSteps == InitSteps /\ [][NextSteps]_vars

----------------------------------------------------------------------------
(* The calls statement by statement and their caller, who assigns to the   *)
(* fields of the objects the calls returned.                               *)

Assigned == {<<i, f>> \in (DOMAIN heap) \X Fields : heap[i][f] # calls[i].result[f]}

\* The caller assigns to a field of an MQTTCredentials it holds: the class
\* (lines 42-47) is a plain dataclass, whose fields can be set.
Assign ==
  /\ pc = "idle"
  /\ Cardinality(Assigned) < MaxAssigns
  /\ \E i \in DOMAIN heap, f \in Fields, v \in AssignedValues :
       /\ heap[i].exception = None
       /\ heap' = [heap EXCEPT ![i][f] = v]
  /\ UNCHANGED <<clock, args, calls, pc, frame>>

NextHolder ==
  \/ BeginCall
  \/ StepClientId
  \/ StepUsername
  \/ StepPassword
  \/ StepReturn
  \/ StaticCall
  \/ Tick
  \/ Assign

SpecHolder == InitSteps /\ [][NextHolder]_vars

----------------------------------------------------------------------------
(* Properties.                                                             *)

Dynamic(e)  == e.fn = "generate_credentials"
Static(e)   == e.fn = "generate_credentials_static"
Returned(e) == e.result.exception = None

\* C1: with an explicit timestamp, all calls of generate_credentials on the
\* same arguments return the same client_id, username and password, whatever
\* other calls were made and however far the clock advanced in between.
C1_Determinism ==
  \A i, j \in DOMAIN calls :
    (Dynamic(calls[i]) /\ Dynamic(calls[j]) /\ args.timestamp # None)
      => calls[i].result = calls[j].result

\* Two calls that returned, a static call between them and the clock advanced.
C1_Witness ==
  /\ Len(calls) = 3
  /\ args.timestamp # None
  /\ Dynamic(calls[1]) /\ Returned(calls[1])
  /\ Static(calls[2])
  /\ Dynamic(calls[3]) /\ Returned(calls[3])
  /\ calls[1].at < calls[3].at

\* What a call works with where an argument was left out.
Variant == IF args.auth_method = None THEN MODERN ELSE args.auth_method

\* s with a ':' after every second character of its 12.
Colons(s) ==
  <<s[1], s[2], ":", s[3], s[4], ":", s[5], s[6], ":", s[7], s[8], ":",
    s[9], s[10], ":", s[11], s[12]>>

Flat12(s) == Len(s) = 12 /\ \A i \in 1..12 : s[i] \notin {":", "-"}

\* The client_id of a device id already in the form the call is to use.
ClientIdOf(uuid) ==
  uuid \o <<"$">> \o args.brand \o <<"$">>
    \o SubSeq(md5(PATTERN \o <<"$">> \o uuid), 1, 6)
    \o <<"_">> \o args.operation \o <<"_", "0", "0", "1">>

\* C2: a device id of exactly 12 characters, none of them ':' or '-', is
\* used with a ':' after every 2 characters, every other device id as it
\* is, case kept; so a flat id gives the client_id of its colon-delimited
\* form, and a flat id with lowercase letters gives another client_id than
\* its uppercase counterpart.
C2_Canonicalization ==
  \A i \in DOMAIN calls :
    LET e   == calls[i]
        mac == args.mac_address
    IN  (Dynamic(e) /\ Returned(e)) =>
          /\ e.result.client_id = ClientIdOf(IF Flat12(mac) THEN Colons(mac) ELSE mac)
          /\ Flat12(mac) =>
               /\ e.result.client_id =
                    build_client_id(canonical_uuid(Colons(mac)), args.brand, args.operation)
               /\ mac # upper(mac) =>
                    e.result.client_id #
                      build_client_id(canonical_uuid(upper(mac)), args.brand, args.operation)

\* The call on the flat lowercase MAC returned.
C2_Witness ==
  \E i \in DOMAIN calls :
    Dynamic(calls[i]) /\ Returned(calls[i]) /\ args.mac_address = FlatLower

\* C3: the username of LEGACY is brand + "$" + str(timestamp), that of
\* MIDDLE and of MODERN brand + "$" + str(timestamp XOR TIME_XOR_CONSTANT),
\* the same for both; for brand "his" these are the literal strings below.
C3_Username ==
  \A i \in DOMAIN calls :
    LET e  == calls[i]
        ts == e.timestamp
        u  == e.result.username
    IN  (Dynamic(e) /\ Returned(e)) =>
          /\ Variant = LEGACY => u = args.brand \o <<"$">> \o str(ts)
          /\ Variant \in {MIDDLE, MODERN} =>
               u = args.brand \o <<"$">> \o str(xor(ts, TIME_XOR_CONSTANT))
          /\ (args.brand = His /\ Variant = LEGACY) =>
               /\ ts = PyInt(1700000000) => u = <<"h", "i", "s", "$", "1", "7", "0", "0", "0", "0", "0", "0", "0", "0">>
               /\ ts = PyInt(-1700000001) => u = <<"h", "i", "s", "$", "-", "1", "7", "0", "0", "0", "0", "0", "0", "0", "1">>
               /\ ts = Beyond64 => u = <<"h", "i", "s", "$", "1", "8", "4", "4", "6", "7", "4", "4", "0", "7", "3", "7", "0", "9", "5", "5", "1", "6", "2", "1">>
          /\ (args.brand = His /\ Variant \in {MIDDLE, MODERN}) =>
               /\ ts = PyInt(1700000000) => u = <<"h", "i", "s", "$", "6", "2", "3", "9", "7", "5", "9", "7", "8", "6", "3", "6", "9", "3", "7", "4", "3", "1", "2">>
               /\ ts = PyInt(-1700000001) => u = <<"h", "i", "s", "$", "-", "6", "2", "3", "9", "7", "5", "9", "7", "8", "6", "3", "6", "9", "3", "7", "4", "3", "1", "3">>
               /\ ts = Beyond64 => u = <<"h", "i", "s", "$", "2", "4", "6", "8", "6", "5", "0", "3", "8", "5", "9", "4", "8", "6", "6", "9", "7", "8", "3", "7">>

\* A MIDDLE call and a LEGACY call on a negative timestamp returned.
C3_Witness ==
  \E i \in DOMAIN calls :
    /\ Dynamic(calls[i]) /\ Returned(calls[i])
    /\ args.brand = His
    /\ args.timestamp = PyInt(-1700000001)
    /\ args.auth_method = MIDDLE

\* The first 6 characters of the MD5 of the value formed with a suffix.
ValueMd5(ts, value_suffix) ==
  SubSeq(md5(args.brand \o str(PyInt(sum_digits(ts) % 10)) \o value_suffix), 1, 6)

\* The password formed with a suffix.
PasswordWith(ts, value_suffix) ==
  md5(str(ts) \o <<"$">> \o ValueMd5(ts, value_suffix))

C5_PasswordFormula ==
  \A i \in DOMAIN calls :
    LET e         == calls[i]
        ts        == e.timestamp
        remainder == CASE ts = PyInt(1700000000)  -> 8
                       [] ts = PyInt(-1700000001) -> 9
                       [] ts = Beyond64           -> 4
                       [] OTHER                   -> sum_digits(ts) % 10
        value     == args.brand \o <<Ascii[remainder + 17]>>
                       \o (IF Variant = MODERN THEN VALUE_SUFFIX_MODERN
                                               ELSE VALUE_SUFFIX_LEGACY)
    IN  (Dynamic(e) /\ Returned(e)) =>
          /\ remainder = sum_digits(ts) % 10
          /\ e.result.password = md5(str(ts) \o <<"$">> \o SubSeq(md5(value), 1, 6))

\* A call on a negative timestamp returned, on a device id and an operation
\* other than the defaults.
C5_Witness ==
  \E i \in DOMAIN calls :
    /\ Dynamic(calls[i]) /\ Returned(calls[i])
    /\ args.timestamp = PyInt(-1700000001)
    /\ args.mac_address = DashId
    /\ args.operation = VidaaVoice

\* C6: generate_credentials_static returns the device id without its ':'
\* and '-' and in upper case, followed by "$vidaa_common", with
\* DEFAULT_MQTT_USERNAME and DEFAULT_MQTT_PASSWORD, whatever the device id;
\* the four forms of one MAC give the one client_id written out below.
C6_StaticFallback ==
  \A i \in DOMAIN calls :
    LET e   == calls[i]
        mac == args.mac_address
    IN  Static(e) =>
          /\ Returned(e)
          /\ e.result.client_id =
               [j \in 1..Len(SelectSeq(mac, LAMBDA c : c \notin {":", "-"})) |->
                  UpperChar(SelectSeq(mac, LAMBDA c : c \notin {":", "-"})[j])]
                 \o <<"$", "v", "i", "d", "a", "a", "_", "c", "o", "m", "m", "o", "n">>
          /\ e.result.username = DEFAULT_MQTT_USERNAME
          /\ e.result.password = DEFAULT_MQTT_PASSWORD
          /\ mac \in {FlatUpper, ColonUpper, FlatLower, ColonLower} =>
               e.result.client_id = <<"A", "A", "B", "B", "C", "C", "D", "D", "E", "E", "F", "F", "$", "v", "i", "d", "a", "a", "_", "c", "o", "m", "m", "o", "n">>
          /\ mac = DashId => e.result.client_id = <<"A", "A", "B", "B", "C", "C", "D", "D", "E", "E", "$", "v", "i", "d", "a", "a", "_", "c", "o", "m", "m", "o", "n">>

\* The static call on the lowercase colon-delimited MAC returned.
C6_Witness ==
  \E i \in DOMAIN calls : Static(calls[i]) /\ args.mac_address = ColonLower

\* C7: a call without a variant returns what the call with MODERN returns
\* on the same device id, brand, operation and timestamp.
C7_DefaultVariant ==
  \A i \in DOMAIN calls :
    LET e == calls[i]
    IN  (Dynamic(e) /\ args.auth_method = None) =>
          e.result = derive(args.mac_address, args.brand, args.operation,
                            e.timestamp, MODERN)

\* A call without a variant returned.
C7_Witness ==
  \E i \in DOMAIN calls :
    Dynamic(calls[i]) /\ Returned(calls[i]) /\ args.auth_method = None

\* C8: every call of generate_credentials and of generate_credentials_static
\* returns credentials, whatever strings it is given; none raises.
C8_NoErrorOutcome ==
  \A i \in DOMAIN calls : Returned(calls[i])

\* C9: what a call handed to its caller never changes afterwards.
C9_CredentialsNeverChange ==
  \A i \in DOMAIN heap : heap[i] = calls[i].result

\* C10: a call given no timestamp reads the clock exactly once, and its
\* username and password are both those of that one reading, a value the
\* clock had during the call; a call given a timestamp reads no clock and
\* works with the timestamp it was given.  Stated of the call that ended
\* last: every call of a behaviour is the last one in some state of it.
C10_SingleClockSample ==
  /\ frame.clock_reads = (IF pc # "idle" /\ args.timestamp = None THEN 1 ELSE 0)
  /\ Len(calls) > 0 =>
       LET e == calls[Len(calls)]
           m == IF args.auth_method = None THEN MODERN ELSE args.auth_method
       IN  Dynamic(e) =>
             /\ e.clock_reads = (IF args.timestamp = None THEN 1 ELSE 0)
             /\ args.timestamp # None => e.timestamp = args.timestamp
             /\ args.timestamp = None =>
                  \E c \in ClockStart..e.at : e.timestamp = PyInt(c)
             /\ Returned(e) =>
                  /\ e.result.username = build_username(args.brand, e.timestamp, m)
                  /\ e.result.password =
                       build_password(e.timestamp,
                         build_value(args.brand, e.timestamp, select_value_suffix(m)))

\* A call without a timestamp returned after the clock had moved on from
\* the value the call sampled.
C10_Witness ==
  \E i \in DOMAIN calls :
    /\ Dynamic(calls[i]) /\ Returned(calls[i])
    /\ args.timestamp = None
    /\ calls[i].clock_reads = 1
    /\ calls[i].timestamp # PyInt(calls[i].at)
====
